---- MODULE Spec2Model ----
(***************************************************************************)
(* Smart Task Analyzer: the scoring engine of backend/tasks_app/scoring.py *)
(* (compute_scores and detect_cycles) as a state machine.                  *)
(*                                                                         *)
(* Numbers.  The code computes in binary floating point; the model         *)
(* computes the same expressions exactly, as integer numerators over the   *)
(* fixed denominators named below (hours in tenths of an hour, weights in  *)
(* hundredths, sub-scores over SubDen, the final score over FinalDen).     *)
(*                                                                         *)
(* Values.  A Python value that the code tests for truth or type is a      *)
(* record [k, v]: k is its kind, v its payload.  The string "" stands for  *)
(* every falsy id or title (absent key, None, '').                         *)
(* Ids, titles and dependency entries are strings, on which str() returns  *)
(* its argument.  A date is the number of days from today to it.           *)
(*                                                                         *)
(* Scope.  The HTTP views (views.py) hand compute_scores a list of records *)
(* and store what it returns; they are not modelled.  The explanation text *)
(* of a result is not modelled either.                                     *)
(***************************************************************************)
EXTENDS Integers, Sequences, FiniteSets

VARIABLES
    pc,         \* "compute_scores" | "detect_cycles": the call that is pending;
                \* "scored" | "raised" | "detected": how it ended
    task_list,  \* compute_scores argument: the list of raw task records
    strategy,   \* compute_scores argument
    id_map,     \* dict id -> cleaned task, as the sequence of its values in key order
    cycles,     \* detect_cycles result: list of sets of ids
    in_cycle,   \* detect_cycles result: id -> BOOLEAN
    results,    \* compute_scores return value (sorted list of result records)
    error       \* "none", or the exception that ended compute_scores

vars == <<pc, task_list, strategy, id_map, cycles, in_cycle, results, error>>

----------------------------------------------------------------------------
(* Bounds of the model *)

\* longest batch of the identity family
MaxTasks == 3
\* most tasks in a map handed to detect_cycles (and in the dependency family)
MaxNodes == 3
\* longest dependency list of a task
MaxDeps == 2
\* longest batch of the field family and of the numeric family
MaxScored == 2

IdNames == <<"A", "B", "C", "D", "E">>
PlaceholderIds == <<"task-0", "task-1", "task-2", "task-3", "task-4">>
UntitledTitles == <<"Untitled 0", "Untitled 1", "Untitled 2", "Untitled 3", "Untitled 4">>

NodeIds(n) == {IdNames[i] : i \in 1..n}

----------------------------------------------------------------------------
(* Generic helpers *)

Range(s) == {s[i] : i \in 1..Len(s)}

SeqsUpTo(S, n) == UNION {[1..k -> S] : k \in 0..n}

Permutations(n) == {p \in [1..n -> 1..n] : \A i, j \in 1..n : p[i] = p[j] => i = j}

\* list.index(x): first position of x in s (1-based here)
IndexOf(s, x) == CHOOSE i \in 1..Len(s) : s[i] = x /\ \A j \in 1..(i - 1) : s[j] # x

MaxOf(S) == CHOOSE m \in S : \A x \in S : x <= m

Min2(a, b) == IF a <= b THEN a ELSE b

Max2(a, b) == IF a >= b THEN a ELSE b

----------------------------------------------------------------------------
(* detect_cycles: scoring.py 23-61 *)

Keys(idm) == {idm[i].id : i \in 1..Len(idm)}

\* graph = {tid: list(task.get('dependencies', []))}
Graph(idm) == [tid \in Keys(idm) |->
                 (idm[CHOOSE i \in 1..Len(idm) : idm[i].id = tid]).dependencies]

\* a back edge that records nothing
MissBackEdge(s, node) == s

\* the back-edge branch of dfs (lines 38-46): node is in progress

BackEdge(s, node) ==
    IF node \in Range(s.stack)
    THEN LET idx == IndexOf(s.stack, node)
             cyc == SubSeq(s.stack, idx, Len(s.stack))
         IN  [s EXCEPT !.cycles = Append(@, Range(cyc)),
                       !.in_cycle = [n \in DOMAIN @ |-> IF n \in Range(cyc) THEN TRUE ELSE @[n]]]
    ELSE s

RECURSIVE dfs(_, _, _)
RECURSIVE dfsNeighbours(_, _, _, _)

\* dfs(node, stack) of lines 35-55; s carries visited, stack, cycles, in_cycle.
\* visited: 0 = not yet seen (None), 1 = in progress, 2 = done.
dfs(graph, node, s) ==
    IF node \notin DOMAIN graph THEN s
    ELSE IF s.visited[node] = 1 THEN BackEdge(s, node)
    ELSE IF s.visited[node] = 2 THEN s
    ELSE LET s1 == [s EXCEPT !.visited[node] = 1, !.stack = Append(@, node)]
             s2 == dfsNeighbours(graph, graph[node], 1, s1)
         IN  [s2 EXCEPT !.stack = SubSeq(@, 1, Len(@) - 1), !.visited[node] = 2]

\* for nb in graph.get(node, []): dfs(nb, stack)
dfsNeighbours(graph, nbs, i, s) ==
    IF i > Len(nbs) THEN s
    ELSE dfsNeighbours(graph, nbs, i + 1, dfs(graph, nbs[i], s))

RECURSIVE dfsRoots(_, _, _, _)
\* for n in graph: if visited.get(n) is None: dfs(n, [])
dfsRoots(graph, idm, i, s) ==
    IF i > Len(idm) THEN s
    ELSE LET n == idm[i].id
         IN  dfsRoots(graph, idm, i + 1,
                      IF s.visited[n] = 0 THEN dfs(graph, n, [s EXCEPT !.stack = <<>>]) ELSE s)

detect_cycles(idm) ==
    LET graph == Graph(idm)
        s0 == [visited |-> [tid \in Keys(idm) |-> 0],
               stack |-> <<>>,
               cycles |-> <<>>,
               in_cycle |-> [tid \in Keys(idm) |-> FALSE]]
        s == dfsRoots(graph, idm, 1, s0)
    IN  [cycles |-> s.cycles, in_cycle |-> s.in_cycle]

----------------------------------------------------------------------------
(* Cleaned task records *)

NumVal(n) == [k |-> "num", v |-> n]

NoDate == [k |-> "none", v |-> 0]

\* a cleaned task as compute_scores stores it in id_map
Cleaned(tid, title, imp, hours, due, deps) ==
    [id |-> tid, title |-> title, importance |-> imp, estimated_hours |-> hours,
     due_date |-> due, dependencies |-> deps]

\* a task of a map handed straight to detect_cycles: only id and dependencies matter
GraphTask(tid, deps) == Cleaned(tid, tid, 5, [k |-> "num", v |-> 40], NoDate, deps)

----------------------------------------------------------------------------
(* compute_scores: scoring.py 63-187 *)

\* base_weights (lines 74-79), in hundredths
StrategyWeights(name) ==
    CASE name = "smart_balance" -> [urgency |-> 35, importance |-> 35, effort |-> 15, dependency |-> 15]
      [] name = "fastest"       -> [urgency |-> 20, importance |-> 20, effort |-> 45, dependency |-> 15]
      [] name = "high_impact"   -> [urgency |-> 20, importance |-> 60, effort |-> 10, dependency |-> 10]
      [] name = "deadline"      -> [urgency |-> 70, importance |-> 15, effort |-> 10, dependency |-> 5]

KnownStrategies == {"smart_balance", "fastest", "high_impact", "deadline"}

\* w = base_weights.get(strategy, base_weights['smart_balance']).copy()  (weights=None)
base_weights(name) ==
    IF name \in KnownStrategies THEN StrategyWeights(name) ELSE StrategyWeights("smart_balance")

\* default_hours = 4.0, in tenths of an hour
default_hours == 40
\* the cycle penalty 0.9 is PenaltyNum / PenaltyDen
PenaltyNum == 9
PenaltyDen == 10
\* sub-scores are numerators over SubUnit * m, m the largest dependents count (or 1)
SubUnit == 300

SubDen(m) == SubUnit * m

\* the final score: a weight in hundredths times a sub-score, times the penalty factor
FinalDen(m) == SubDen(m) * 100 * PenaltyDen

\* round(x, 4) of x = n / d, in units of 1/10000: the nearest one, a tie going
\* to the even one (a float that stands for a tie may round either way in the
\* code); d is a multiple of 10000 or n * 10000 is small
Round4(n, d) ==
    LET num == IF d % 10000 = 0 THEN n ELSE n * 10000
        den == IF d % 10000 = 0 THEN d \div 10000 ELSE d
        q == num \div den
        r == num % den
    IN  IF 2 * r < den THEN q
        ELSE IF 2 * r > den THEN q + 1
        ELSE q + (q % 2)

\* tid = str(t.get('id') or t.get('title') or f"task-{i}")   (i counts from 0)
TaskId(t, i) ==
    IF t.id # "" THEN t.id
    ELSE IF t.title # "" THEN t.title
    ELSE PlaceholderIds[i + 1]

\* cleaned['title'] = t.get('title') or f'Untitled {i}'
TaskTitle(t, i) == IF t.title # "" THEN t.title ELSE UntitledTitles[i + 1]

\* try: int(t.get('importance') or 5) except: 5
CleanImportance(x) == IF x.k = "num" /\ x.v # 0 THEN x.v ELSE 5

\* try: float(x if x is not None else default_hours) except: default_hours
CleanHours(x) == IF x.k = "num" THEN NumVal(x.v) ELSE NumVal(default_hours)

\* parse_due_date (lines 13-21): None for None, '' and whatever does not parse
parse_due_date(x) == IF x.k = "date" THEN x ELSE NoDate

\* id_map[tid] = cleaned: a key already there keeps its place and takes the new value
DictSet(idm, c) ==
    IF c.id \in Keys(idm)
    THEN [j \in 1..Len(idm) |-> IF idm[j].id = c.id THEN c ELSE idm[j]]
    ELSE Append(idm, c)

\* [str(x) for x in (t.get('dependencies') or [])], for a value that iterates
CleanDependencies(x) == IF x.k = "list" THEN x.v ELSE <<>>

\* the cleaned copy of the record t at 0-based index i (lines 89-102)
CleanTask(t, i) ==
    Cleaned(TaskId(t, i), TaskTitle(t, i), CleanImportance(t.importance),
            CleanHours(t.estimated_hours), parse_due_date(t.due_date),
            CleanDependencies(t.dependencies))

RECURSIVE NormalizeFrom(_, _, _)
\* the loop of lines 88-103 from 0-based index i on; a dependencies value that is
\* truthy and not iterable raises TypeError at line 102, outside every try
NormalizeFrom(tl, i, idm) ==
    IF i >= Len(tl) THEN [error |-> "none", id_map |-> idm]
    ELSE IF tl[i + 1].dependencies.k = "scalar" THEN [error |-> "TypeError", id_map |-> idm]
    ELSE NormalizeFrom(tl, i + 1, DictSet(idm, CleanTask(tl[i + 1], i)))

\* dependents_count (lines 109-113): one per listing, whoever lists it and however often
CountListings(idm, tid) ==
    Cardinality(UNION {{<<i, j>> : j \in {j \in 1..Len(idm[i].dependencies) :
                                            idm[i].dependencies[j] = tid}} :
                       i \in 1..Len(idm)})

dependents_count(idm) == [tid \in Keys(idm) |-> CountListings(idm, tid)]

\* max_dependents = max(dependents_count.values()) if dependents_count else 1
max_dependents(idm) ==
    IF Len(idm) = 0 THEN 1 ELSE MaxOf({dependents_count(idm)[tid] : tid \in Keys(idm)})

\* Urgency without the past-due branch of lines 127-130
UrgencyNoBoost(due) ==
    IF due.k # "date" THEN 0 ELSE Min2(SubUnit, Max2(0, 30 - due.v) * 10)

\* lines 122-135, numerator over SubUnit
Urgency(due) ==
    IF due.k # "date" THEN 0
    ELSE IF due.v < 0 THEN Min2(99, 90 + Min2(30, -due.v)) * 3
    ELSE Min2(SubUnit, Max2(0, 30 - due.v) * 10)

\* line 138, numerator over SubUnit
Importance(imp) == Max2(1, Min2(10, imp)) * 30

\* Effort without the two clamps of lines 143-146
UnclampedEffort(h) ==
    LET hours == Max2(1, IF h.v # 0 THEN h.v ELSE default_hours)
    IN  (SubUnit \div 2 - (hours - 10)) * 2

\* lines 142-148, numerator over SubUnit; hours in tenths
Effort(h) ==
    LET hours == Max2(1, IF h.v # 0 THEN h.v ELSE default_hours)
    IN  IF hours <= 10 THEN SubUnit
        ELSE IF hours >= 160 THEN 0
        ELSE (SubUnit \div 2 - (hours - 10)) * 2

\* lines 158-162: the multiplier of the final score, over PenaltyDen
PenaltyFactor(flagged) == IF flagged THEN PenaltyNum ELSE PenaltyDen

\* lines 164-168; t is the cleaned record, whose estimated_hours line 98/100 always set
Issues(t, flagged) ==
    (IF flagged THEN <<"circular_dependency">> ELSE <<>>)
    \o (IF t.due_date.k = "none" THEN <<"no_due_date">> ELSE <<>>)
    \o (IF t.estimated_hours.k \in {"absent", "null"} THEN <<"no_estimated_hours">> ELSE <<>>)

\* one pass of the loop of lines 117-183 (the explanation text is not modelled)
ScoreTask(t, w, counts, maxd, incyc) ==
    LET m == IF maxd > 0 THEN maxd ELSE 1
        urgency == Urgency(t.due_date) * m
        imp == Importance(t.importance) * m
        effort == Effort(t.estimated_hours) * m
        dep_score == IF maxd > 0 THEN counts[t.id] * SubUnit ELSE 0
        wsum == w.urgency * urgency + w.importance * imp + w.effort * effort
                + w.dependency * dep_score
        final == wsum * PenaltyFactor(incyc[t.id])
    IN  [id |-> t.id, title |-> t.title, raw |-> t,
         score |-> Round4(final, FinalDen(m)),
         subscores |-> [urgency |-> Round4(urgency, SubDen(m)),
                        importance |-> Round4(imp, SubDen(m)),
                        effort |-> Round4(effort, SubDen(m)),
                        dependency |-> Round4(dep_score, SubDen(m))],
         issues |-> Issues(t, incyc[t.id]),
         \* the loop's locals before rounding: sub-scores over SubDen(m), final over FinalDen(m)
         exact |-> [urgency |-> urgency, importance |-> imp, effort |-> effort,
                    dependency |-> dep_score, final |-> final, m |-> m]]

\* list.sort(key=score, reverse=True): stable, equal keys keep their order
InsertDesc(sorted, r) ==
    LET k == Cardinality({j \in 1..Len(sorted) : sorted[j].score >= r.score})
    IN  SubSeq(sorted, 1, k) \o <<r>> \o SubSeq(sorted, k + 1, Len(sorted))

RECURSIVE SortFrom(_, _, _)
SortFrom(rs, i, sorted) ==
    IF i > Len(rs) THEN sorted ELSE SortFrom(rs, i + 1, InsertDesc(sorted, rs[i]))

SortDesc(rs) == SortFrom(rs, 1, <<>>)

\* lines 105-187 after normalisation
ScoreAll(idm, strat) ==
    LET dc == detect_cycles(idm)
        counts == dependents_count(idm)
        maxd == max_dependents(idm)
        w == base_weights(strat)
    IN  [cycles |-> dc.cycles, in_cycle |-> dc.in_cycle,
         results |-> SortDesc([i \in 1..Len(idm) |->
                                 ScoreTask(idm[i], w, counts, maxd, dc.in_cycle)])]

----------------------------------------------------------------------------
(* The calls *)

\* compute_scores(task_list, strategy): the whole call, from normalisation to the sort
ComputeScores ==
    /\ pc = "compute_scores"
    /\ LET n == NormalizeFrom(task_list, 0, <<>>)
       IN  IF n.error # "none"
           THEN /\ pc' = "raised"
                /\ error' = n.error
                /\ UNCHANGED <<id_map, cycles, in_cycle, results>>
           ELSE LET r == ScoreAll(n.id_map, strategy)
                IN  /\ pc' = "scored"
                    /\ id_map' = n.id_map
                    /\ cycles' = r.cycles
                    /\ in_cycle' = r.in_cycle
                    /\ results' = r.results
                    /\ error' = "none"
    /\ UNCHANGED <<task_list, strategy>>

\* detect_cycles(tasks) called on a map of its own
DetectCycles ==
    /\ pc = "detect_cycles"
    /\ LET dc == detect_cycles(id_map)
       IN  /\ cycles' = dc.cycles
           /\ in_cycle' = dc.in_cycle
    /\ pc' = "detected"
    /\ UNCHANGED <<task_list, strategy, id_map, results, error>>

Next == ComputeScores \/ DetectCycles

----------------------------------------------------------------------------
(* Inputs *)

NoVal == [k |-> "none", v |-> 0]
BadVal == [k |-> "bad", v |-> 0]
AbsentHours == [k |-> "absent", v |-> 0]
NullHours == [k |-> "null", v |-> 0]
DateVal(days) == [k |-> "date", v |-> days]
NoDeps == [k |-> "none", v |-> <<>>]
ScalarDeps == [k |-> "scalar", v |-> <<>>]
ListDeps(s) == [k |-> "list", v |-> s]

Strategies == KnownStrategies \cup {"bogus"}

\* the batches of length n whose i-th record is drawn from Dom[i]
RECURSIVE BatchesOfLen(_, _)
BatchesOfLen(Dom, n) ==
    IF n = 0 THEN {<<>>}
    ELSE {Append(b, t) : b \in BatchesOfLen(Dom, n - 1), t \in Dom[n]}

\* identity family: ids and titles absent, repeated, or equal to one another
IdTask(i) ==
    [id : {"", "A", "B"}, title : {"", "A", "T"}, due_date : {NoVal},
     estimated_hours : {NumVal(default_hours)}, importance : {NoVal, NumVal(8)},
     dependencies : {NoDeps}]

\* field family: every kind of value, well-formed or not, in each field
FieldTask(i) ==
    [id : {IdNames[i]}, title : {""},
     due_date : {NoVal, BadVal, DateVal(-5), DateVal(12)},
     estimated_hours : {AbsentHours, NullHours, BadVal, NumVal(5), NumVal(0)},
     importance : {NoVal, BadVal, NumVal(8)},
     dependencies : {NoDeps, ScalarDeps, ListDeps(<<"A">>)}]

\* dependency family: every dependency list over the ids
DepTask(i) ==
    [id : {IdNames[i]}, title : {""}, due_date : {NoVal},
     estimated_hours : {NumVal(default_hours)}, importance : {NoVal},
     dependencies : {ListDeps(d) : d \in SeqsUpTo(NodeIds(MaxNodes), MaxDeps)}]

\* numeric family: due date (days from today), importance, hours (tenths)
ScoreProfiles ==
    { <<NoVal, NoVal, AbsentHours>>,
      <<DateVal(-5), NumVal(8), NumVal(5)>>,
      <<DateVal(-40), NumVal(15), NumVal(200)>>,
      <<DateVal(0), NumVal(10), NumVal(10)>>,
      <<DateVal(45), NumVal(-3), NumVal(85)>>,
      <<DateVal(12), NumVal(1), NumVal(159)>>,
      <<DateVal(-30), NumVal(0), NumVal(0)>> }

ScoreTaskInput(i) ==
    {[id |-> IdNames[i], title |-> "", due_date |-> p[1], estimated_hours |-> p[3],
      importance |-> p[2], dependencies |-> d] :
        p \in ScoreProfiles,
        d \in {NoDeps} \cup {ListDeps(<<x>>) : x \in NodeIds(MaxScored)}}

Pending(batches, strategies) ==
    /\ pc = "compute_scores"
    /\ task_list \in batches
    /\ strategy \in strategies
    /\ id_map = <<>>
    /\ cycles = <<>>
    /\ in_cycle = <<>>
    /\ results = <<>>
    /\ error = "none"

InitIds == Pending(UNION {BatchesOfLen([i \in 1..n |-> IdTask(i)], n) : n \in 0..MaxTasks}, {"smart_balance"})

InitFields == Pending(UNION {BatchesOfLen([i \in 1..n |-> FieldTask(i)], n) : n \in 1..MaxScored}, {"smart_balance"})

InitDeps == Pending(UNION {BatchesOfLen([i \in 1..n |-> DepTask(i)], n) : n \in 1..MaxNodes}, {"smart_balance"})

InitScore == Pending(UNION {BatchesOfLen([i \in 1..n |-> ScoreTaskInput(i)], n) : n \in 1..MaxScored}, Strategies)

\* a map for detect_cycles: n tasks in any key order, any dependency lists
GraphMaps(n) ==
    {[i \in 1..n |-> GraphTask(IdNames[p[i]], d[i])] :
        p \in Permutations(n), d \in [1..n -> SeqsUpTo(NodeIds(MaxNodes), MaxDeps)]}

PendingGraph(maps) ==
    /\ pc = "detect_cycles"
    /\ task_list = <<>>
    /\ strategy = "smart_balance"
    /\ id_map \in maps
    /\ cycles = <<>>
    /\ in_cycle = <<>>
    /\ results = <<>>
    /\ error = "none"

InitGraph == PendingGraph(UNION {GraphMaps(n) : n \in 1..MaxNodes})

\* a single simple cycle over n tasks: ring[i] lists ring[i+1] (one or more times),
\* the last lists the first; the map's key order is any order of the n ids
RingMaps(n) ==
    {[i \in 1..n |-> GraphTask(IdNames[p[i]],
                               LET pos == CHOOSE j \in 1..n : ring[j] = p[i]
                               IN  [x \in 1..reps[p[i]] |-> IdNames[ring[(pos % n) + 1]]])] :
        p \in Permutations(n), ring \in Permutations(n), reps \in [1..n -> 1..MaxDeps]}

InitRing == PendingGraph(UNION {RingMaps(n) : n \in 1..MaxNodes})

Init == InitIds \/ InitFields \/ InitDeps \/ InitScore \/ InitGraph

Spec == Init /\ [][Next]_vars

\* the numeric family alone
SpecScore == InitScore /\ [][ComputeScores]_vars

\* single simple cycles alone
SpecRing == InitRing /\ [][DetectCycles]_vars

----------------------------------------------------------------------------
(* Vocabulary of the properties *)

\* the dependency graph: a -> b iff a lists b and b is a task id of the batch
Succs(idm, S) ==
    UNION {Range(idm[i].dependencies) \cap Keys(idm) : i \in {i \in 1..Len(idm) : idm[i].id \in S}}

RECURSIVE ReachFrom(_, _, _)
ReachFrom(idm, S, k) ==
    IF k = 0 THEN S ELSE ReachFrom(idm, S \cup Succs(idm, S), k - 1)

\* t lies on at least one directed cycle
OnCycle(idm, t) == t \in ReachFrom(idm, Succs(idm, {t}), Len(idm))

\* the graph is one simple cycle through every task
IsSimpleCycle(idm) ==
    /\ Len(idm) >= 1
    /\ \A i, j \in 1..Len(idm) : idm[i].id = idm[j].id => i = j
    /\ \A t \in Keys(idm) : Cardinality(Succs(idm, {t})) = 1
    /\ \A t \in Keys(idm) : ReachFrom(idm, Succs(idm, {t}), Len(idm)) = Keys(idm)

NoRepeatedDeps(idm) ==
    \A i \in 1..Len(idm) :
        \A j, k \in 1..Len(idm[i].dependencies) :
            idm[i].dependencies[j] = idm[i].dependencies[k] => j = k

Reordered(idm, p) == [i \in 1..Len(idm) |-> idm[p[i]]]

Returned == pc \in {"detected", "scored"}

\* fan-in: the number of OTHER tasks that list t
FanIn(idm, t) ==
    Cardinality({i \in 1..Len(idm) : idm[i].id # t /\ t \in Range(idm[i].dependencies)})

MaxFanIn(idm) == MaxOf({FanIn(idm, t) : t \in Keys(idm)})

\* the strategy weight table of the specification, in hundredths
TableWeights ==
    [smart_balance |-> <<35, 35, 15, 15>>, fastest |-> <<20, 20, 45, 15>>,
     high_impact |-> <<20, 60, 10, 10>>, deadline |-> <<70, 15, 10, 5>>]

WeightsFor(name) ==
    IF name \in DOMAIN TableWeights THEN TableWeights[name] ELSE TableWeights["smart_balance"]

\* the weighted sum of a result's sub-scores before rounding, over SubDen * 100
WeightedSum(r, name) ==
    LET w == WeightsFor(name)
    IN  w[1] * r.exact.urgency + w[2] * r.exact.importance
        + w[3] * r.exact.effort + w[4] * r.exact.dependency

\* the positions (from 1) of the input records whose cleaned copy a result carries
Origins(r) == {k \in 1..Len(task_list) : r.raw = CleanTask(task_list[k], k - 1)}

HasIssue(r, flag) == flag \in Range(r.issues)

\* the scenario: one task, due 5 days ago, importance 8, 0.5 hours, no dependencies
PastDueScenario ==
    /\ Len(task_list) = 1
    /\ task_list[1].due_date = DateVal(-5)
    /\ task_list[1].importance = NumVal(8)
    /\ task_list[1].estimated_hours = NumVal(5)
    /\ task_list[1].dependencies = NoDeps
    /\ strategy = "deadline"

----------------------------------------------------------------------------
(* Properties *)

\* C1: after detect_cycles returns, in_cycle[t] is true for exactly the task ids
\* that lie on at least one directed cycle of the dependency graph.
C1_DetectsEveryCycle ==
    Returned => \A t \in Keys(id_map) : in_cycle[t] <=> OnCycle(id_map, t)

\* C2: for every other key order of the same tasks, detect_cycles returns the
\* same cycle sets (as a set of sets: the same number of distinct sets, and the
\* same sets) and the same in_cycle map.
C2_OrderIndependent ==
    pc = "detected" =>
        \A p \in Permutations(Len(id_map)) :
            LET other == detect_cycles(Reordered(id_map, p))
            IN  /\ Cardinality(Range(other.cycles)) = Cardinality(Range(cycles))
                /\ Range(other.cycles) = Range(cycles)
                /\ other.in_cycle = in_cycle

C4_NoEstimatedHoursFlag ==
    pc = "scored" =>
        \A i \in 1..Len(results) :
            \A k \in Origins(results[i]) :
                LET r == results[i]
                    missing == task_list[k].estimated_hours.k \in {"absent", "null"}
                IN  /\ HasIssue(r, "no_estimated_hours") <=> missing
                    /\ (missing /\ task_list[k].due_date.k = "none") =>
                           /\ HasIssue(r, "no_due_date")
                           /\ HasIssue(r, "no_estimated_hours")
                           /\ r.subscores.urgency = 0

\* C5: compute_scores never ends in an exception, whatever a field holds.
C5_NeverRaises == pc # "raised" /\ error = "none"

\* C6: the results are in descending order of rounded score, and results with
\* equal scores are in the order of their input records.
C6_SortedStable ==
    pc = "scored" =>
        \A i, j \in 1..Len(results) :
            i < j => /\ results[i].score >= results[j].score
                     /\ results[i].score = results[j].score
                            => \E a \in Origins(results[i]), b \in Origins(results[j]) : a < b

\* C7: the dependency sub-score is fanin(t) / max fan-in, fanin(t) counting the
\* other tasks that list t, and 0 for every task when the maximum is 0.
C7_FanInOfOtherTasks ==
    pc = "scored" =>
        \A i \in 1..Len(results) :
            LET r == results[i]
                mx == MaxFanIn(id_map)
            IN  IF mx = 0 THEN r.exact.dependency = 0
                ELSE r.exact.dependency * mx = FanIn(id_map, r.id) * SubDen(r.exact.m)

\* C8 as stated: the scenario yields urgency 0.95, importance 0.8, effort 1.0,
\* dependency 0.0 and the final score 0.8050.
C8_ScenarioScore8050 ==
    (pc = "scored" /\ PastDueScenario) =>
        /\ results[1].subscores =
               [urgency |-> 9500, importance |-> 8000, effort |-> 10000, dependency |-> 0]
        /\ results[1].score = 8050

\* C8 amended: the scenario yields urgency 0.95, importance 0.8, effort 1.0,
\* dependency 0.0 and the final score 0.8850, the weighted sum
\* 0.7*0.95 + 0.15*0.8 + 0.1*1.0 + 0.05*0.
C8_ScenarioScore8850 ==
    (pc = "scored" /\ PastDueScenario) =>
        /\ Len(results) = 1
        /\ results[1].subscores =
               [urgency |-> 9500, importance |-> 8000, effort |-> 10000, dependency |-> 0]
        /\ results[1].score = 8850
        /\ results[1].exact.final * 1000 = 885 * FinalDen(1)

\* C8 witness: the scenario has been scored.
C8_Witness == pc = "scored" /\ PastDueScenario /\ Len(results) = 1

\* C9: before rounding every sub-score lies in [0,1]; the final score lies in
\* [0,1], never exceeds the weighted sum of the sub-scores, equals it for a task
\* not flagged in_cycle and is 0.9 times it for a flagged one; an unrecognized
\* strategy weighs as smart_balance.
C9_ScoresInUnitRange ==
    pc = "scored" =>
        \A i \in 1..Len(results) :
            LET r == results[i]
                e == r.exact
                wsum == WeightedSum(r, strategy)
            IN  /\ \A x \in {e.urgency, e.importance, e.effort, e.dependency} :
                       0 <= x /\ x <= SubDen(e.m)
                /\ 0 <= e.final /\ e.final <= FinalDen(e.m)
                /\ e.final <= wsum * 10
                /\ ~in_cycle[r.id] => e.final = wsum * 10
                /\ in_cycle[r.id] => e.final = wsum * 9

\* C9 witness: under an unrecognized strategy, a task flagged in_cycle whose
\* four sub-scores are all 1 gets exactly 0.9.
C9_Witness ==
    /\ pc = "scored"
    /\ strategy = "bogus"
    /\ \E i \in 1..Len(results) :
           /\ in_cycle[results[i].id]
           /\ results[i].exact.dependency = SubDen(results[i].exact.m)
           /\ results[i].exact.final * 10 = 9 * FinalDen(results[i].exact.m)

\* C10: compute_scores returns one result per input record, each input record
\* scored, also when ids are derived from titles or repeat.
C10_OneResultPerRecord ==
    pc = "scored" =>
        /\ Len(results) = Len(task_list)
        /\ \A k \in 1..Len(task_list) : \E i \in 1..Len(results) : k \in Origins(results[i])

====
